---------------------------- MODULE Spec2Model ----------------------------
(***************************************************************************)
(* The Usage / PokemonInfo / useAsync program of src/src/exercises/04.js   *)
(* as a state machine: the form's submit handler, the effect of useAsync,  *)
(* the promise chain built by asyncCallback, and the reducer (Spec).       *)
(* The cache-less program of src/src/exercises-final/02.js (Spec02) and    *)
(* the messages demo of src/src/exercises-final/05.js (Spec05) follow;     *)
(* each specification runs one program and leaves the others as they       *)
(* start.                                                                  *)
(*                                                                         *)
(* JavaScript values are records with a tag, so that any two of them can   *)
(* be compared.  Names are strings.                                        *)
(***************************************************************************)
EXTENDS Integers, Sequences, FiniteSets, TLC

\* ---------------------------------------------------------------- bounds
\* The most promise chains useAsync has pending at once in the model.
MaxInflight == 3
\* The most names one PokemonInfo of 02.js is given in the model.
MaxKeys02 == 3
\* The most clicks on the buttons of 05.js in the model.
MaxClicks == 25

\* ---------------------------------------------------------------- values
\* The names a user types into the form (04.js:116).
Names == {"pikachu", "mew"}
\* The value of an input left empty (04.js:110).
EmptyInput == ""
\* React.useState(null) of Usage (04.js:107): no name yet.
NullName == "null"
Inputs == Names \cup {EmptyInput}

Null == [tag |-> "null"]
Undefined == [tag |-> "undefined"]
\* response.data.pokemon for a name the API knows (04.js:66).
Pokemon(k) == [tag |-> "pokemon", name |-> k]
\* The value a rejected fetch carries (04.js:53-66).
NetworkError == [tag |-> "error", message |-> "fetch failed"]

\* JavaScript truthiness of the values above.
Truthy(v) == v.tag \notin {"null", "undefined"}
\* pokemonName ? <PokemonInfo/> : null (04.js:120).
TruthyName(n) == n \in Names

\* React.useState({}) (04.js:5): cache[k] is undefined for every k.
EmptyCache == [k \in Names |-> Undefined]
\* The initial reducer state of useAsync (04.js:87-91).
InitialState == [data |-> Null, loading |-> FALSE, error |-> Null]
\* The reducer threw (04.js:80-82).
Unhandled == [thrown |-> "Unhandled action type"]

\* asyncReducer with an ERROR case that keeps the previous data.
asyncReducer_ErrorKeepsData(s, action) ==
  CASE action.type = "LOADING" -> [loading |-> TRUE, data |-> Null, error |-> Null]
    [] action.type = "LOADED" -> [loading |-> FALSE, data |-> action.data, error |-> Null]
    [] action.type = "ERROR" -> [loading |-> FALSE, data |-> s.data, error |-> action.error]
    [] OTHER -> Unhandled

\* asyncReducer with a LOADING case that only sets the flag.
asyncReducer_LoadingKeepsPayload(s, action) ==
  CASE action.type = "LOADING" -> [s EXCEPT !.loading = TRUE]
    [] action.type = "LOADED" -> [loading |-> FALSE, data |-> action.data, error |-> Null]
    [] action.type = "ERROR" -> [loading |-> FALSE, data |-> Null, error |-> action.error]
    [] OTHER -> Unhandled

\* asyncReducer with a default case that returns the state.
asyncReducer_DefaultReturnsState(s, action) ==
  CASE action.type = "LOADING" -> [loading |-> TRUE, data |-> Null, error |-> Null]
    [] action.type = "LOADED" -> [loading |-> FALSE, data |-> action.data, error |-> Null]
    [] action.type = "ERROR" -> [loading |-> FALSE, data |-> Null, error |-> action.error]
    [] OTHER -> s

\* asyncReducer (04.js:69-84).
asyncReducer(s, action) ==
  CASE action.type = "LOADING" -> [loading |-> TRUE, data |-> Null, error |-> Null]
    [] action.type = "LOADED" -> [loading |-> FALSE, data |-> action.data, error |-> Null]
    [] action.type = "ERROR" -> [loading |-> FALSE, data |-> Null, error |-> action.error]
    [] OTHER -> Unhandled

VARIABLES
  known,        \* the names the API at graphql-pokemon.now.sh knows (04.js:54)
  pokemonName,  \* Usage's state (04.js:107)
  cache,        \* PokemonInfo's cache state (04.js:5)
  state,        \* useAsync's reducer state (04.js:87)
  effect,       \* why useAsync's effect is scheduled: "none", "mount",
                \* "name" (pokemonName changed) or "cache" (cache changed)
  promises,     \* the pending chains asyncCallback().then(...) in creation order
  last,         \* history: the step just taken
  shownFor,     \* history: the name of the attempt that produced state
  requested,    \* history: the names this PokemonInfo was rendered with
  firstRequest, \* history: pokemonName was not requested before in this PokemonInfo
  calls,        \* history: fetchPokemon calls since pokemonName last changed (0, 1, 2 = more)
  \* 02.js
  name02,       \* Usage's state (02.js:85)
  state02,      \* PokemonInfo's reducer state (02.js:22)
  effect02,     \* the effect (02.js:29-39): "none", "scheduled", or "dispatched"
                \* (LOADING is dispatched, fetchPokemon not yet called)
  fetches02,    \* the names of the pending fetchPokemon calls, in call order
  keys02,       \* history: names this PokemonInfo was given (mount and changes)
  fetched02,    \* history: fetchPokemon calls of this PokemonInfo
  loadings02,   \* history: LOADING dispatches
  nLoaded02,    \* history: LOADED dispatches
  nError02,     \* history: ERROR dispatches
  \* 05.js
  messages,     \* Usage's state (05.js:28), as the ids of the messages
  click,        \* history: the button clicked last and the length it found
  clicks        \* history: clicks so far

vars04 == <<known, pokemonName, cache, state, effect, promises, last, shownFor, requested, firstRequest, calls>>
vars02 == <<name02, state02, effect02, fetches02, keys02, fetched02, loadings02, nLoaded02, nError02>>
vars05 == <<messages, click, clicks>>
vars == <<vars04, vars02, vars05>>

\* addToCache writing under the name of the latest render instead of the
\* name of the render that built it.
addToCache_LatestName(c, name, pokemonData) == [c EXCEPT ![pokemonName] = pokemonData]

\* addToCache of the render whose cache and pokemonName were c and name:
\* setCache({...cache, [pokemonName]: pokemonData}) (04.js:7-10).
addToCache(c, name, pokemonData) == [c EXCEPT ![name] = pokemonData]

\* What fetchPokemon(name) resolves to when the request succeeds:
\* response.data.pokemon, null for a name the API does not know (04.js:35-67).
fetchPokemon(name) == IF name \in known THEN Pokemon(name) ELSE Null

\* The tagged-union view of the request state.  {data: null, loading: false,
\* error: null} is Idle before the first dispatch and Loaded{data: null}
\* after a LOADED dispatch.
RequestState ==
  IF state = Unhandled THEN "Thrown"
  ELSE IF state.loading THEN "Loading"
  ELSE IF state.error # Null THEN "Errored"
  ELSE IF shownFor = NullName THEN "Idle"
  ELSE "Loaded"

Step(op, key, fetched) ==
  [op |-> op, key |-> key, fetched |-> fetched, prev |-> RequestState]

RemoveAt(s, i) == [j \in 1..(Len(s) - 1) |-> IF j < i THEN s[j] ELSE s[j + 1]]

\* A then-callback is queued: nothing but queued callbacks and effects runs
\* before it.
MicrotaskPending == \E i \in 1..Len(promises) : promises[i].stage = "resolved"

Init04 ==
  /\ known \in SUBSET Names
  /\ pokemonName = NullName
  /\ cache = EmptyCache
  /\ state = InitialState
  /\ effect = "none"
  /\ promises = <<>>
  /\ last = [op |-> "init", key |-> NullName, fetched |-> FALSE, prev |-> "Idle"]
  /\ shownFor = NullName
  /\ requested = {}
  /\ firstRequest = FALSE
  /\ calls = 0

\* handleSubmit (04.js:108-111) and the render it causes (04.js:120, 4-23).
handleSubmit(n) ==
  /\ effect = "none"
  /\ ~MicrotaskPending
  /\ Len(promises) < MaxInflight
  /\ last' = Step("submit", n, FALSE)
  /\ IF n = pokemonName
       THEN \* setPokemonName with the same value: no render
            UNCHANGED <<known, pokemonName, cache, state, effect, promises, shownFor, requested, firstRequest, calls>>
     ELSE IF TruthyName(n) /\ ~TruthyName(pokemonName)
       THEN \* PokemonInfo mounts
            /\ pokemonName' = n
            /\ UNCHANGED known
            /\ cache' = EmptyCache
            /\ state' = InitialState
            /\ effect' = "mount"
            /\ promises' = <<>>
            /\ shownFor' = NullName
            /\ requested' = {n}
            /\ firstRequest' = TRUE
            /\ calls' = 0
     ELSE IF TruthyName(n)
       THEN \* pokemonName changes: addToCache and asyncCallback are new
            /\ pokemonName' = n
            /\ effect' = "name"
            /\ requested' = requested \cup {n}
            /\ firstRequest' = (n \notin requested)
            /\ calls' = 0
            /\ UNCHANGED <<known, cache, state, promises, shownFor>>
     ELSE IF TruthyName(pokemonName)
       THEN \* PokemonInfo unmounts: its state is gone and the callbacks of
            \* its pending chains update nothing
            /\ pokemonName' = n
            /\ UNCHANGED known
            /\ cache' = EmptyCache
            /\ state' = InitialState
            /\ effect' = "none"
            /\ promises' = <<>>
            /\ shownFor' = NullName
            /\ requested' = {}
            /\ firstRequest' = FALSE
            /\ calls' = 0
     ELSE \* null -> "": nothing is mounted
            /\ pokemonName' = n
            /\ UNCHANGED <<known, cache, state, effect, promises, shownFor, requested, firstRequest, calls>>

\* asyncCallback of the current render (04.js:12-21): the chain it starts.
asyncCallback ==
  IF Truthy(cache[pokemonName])
    THEN [key |-> pokemonName, cache |-> EmptyCache, stage |-> "resolved",
          data |-> cache[pokemonName]]
    ELSE [key |-> pokemonName, cache |-> cache, stage |-> "fetching",
          data |-> Undefined]

\* The effect of useAsync (04.js:92-102).
RunEffect ==
  /\ effect # "none"
  /\ Len(promises) < MaxInflight
  /\ state' = asyncReducer(state, [type |-> "LOADING"])
  /\ promises' = Append(promises, asyncCallback)
  /\ effect' = "none"
  /\ shownFor' = pokemonName
  /\ calls' = IF asyncCallback.stage = "fetching" /\ calls < 2 THEN calls + 1 ELSE calls
  /\ last' = Step("effect", pokemonName, asyncCallback.stage = "fetching")
  /\ UNCHANGED <<known, pokemonName, cache, requested, firstRequest>>

\* fetchPokemon resolves and the first then-callback runs (04.js:16-19).
FetchSucceed(i) ==
  /\ effect = "none"
  /\ ~MicrotaskPending
  /\ promises[i].stage = "fetching"
  /\ cache' = addToCache(promises[i].cache, promises[i].key, fetchPokemon(promises[i].key))
  /\ effect' = "cache"
  /\ promises' = [promises EXCEPT ![i] = [key |-> promises[i].key, cache |-> EmptyCache,
                                          stage |-> "resolved",
                                          data |-> fetchPokemon(promises[i].key)]]
  /\ last' = Step("resolve", promises[i].key, FALSE)
  /\ UNCHANGED <<known, pokemonName, state, shownFor, requested, firstRequest, calls>>

FirstResolved == CHOOSE i \in 1..Len(promises) :
  /\ promises[i].stage = "resolved"
  /\ \A j \in 1..(i - 1) : promises[j].stage # "resolved"

\* The success callback of useAsync (04.js:95-97).
DispatchLoaded ==
  /\ MicrotaskPending
  /\ state' = asyncReducer(state, [type |-> "LOADED", data |-> promises[FirstResolved].data])
  /\ promises' = RemoveAt(promises, FirstResolved)
  /\ shownFor' = promises[FirstResolved].key
  /\ last' = Step("LOADED", promises[FirstResolved].key, FALSE)
  /\ UNCHANGED <<known, pokemonName, cache, effect, requested, firstRequest, calls>>

\* fetchPokemon rejects: the failure callback of useAsync (04.js:98-100).
FetchFail(i) ==
  /\ ~MicrotaskPending
  /\ promises[i].stage = "fetching"
  /\ state' = asyncReducer(state, [type |-> "ERROR", error |-> NetworkError])
  /\ promises' = RemoveAt(promises, i)
  /\ shownFor' = promises[i].key
  /\ last' = Step("ERROR", promises[i].key, FALSE)
  /\ UNCHANGED <<known, pokemonName, cache, effect, requested, firstRequest, calls>>

\* ------------------------------------------------------------------ 02.js
\* The initial reducer state of PokemonInfo (02.js:22-26).
InitialState02 == [pokemon |-> Null, loading |-> FALSE, error |-> Null]

\* pokemonReducer (02.js:4-19).
pokemonReducer(s, action) ==
  CASE action.type = "LOADING" -> [loading |-> TRUE, pokemon |-> Null, error |-> Null]
    [] action.type = "LOADED" -> [loading |-> FALSE, pokemon |-> action.pokemon, error |-> Null]
    [] action.type = "ERROR" -> [loading |-> FALSE, pokemon |-> Null, error |-> action.error]
    [] OTHER -> Unhandled

\* An effect without its dependency array: scheduled by every render.
DepsChanged02_EveryRender(prev, next) == TRUE

\* The dependencies [pokemonName] of the effect (02.js:39): a render
\* schedules the effect when the name differs from the previous render's.
DepsChanged02(prev, next) == prev # next

\* The effect after a render caused by a dispatch: the name is the same.
AfterDispatch02 ==
  IF effect02 = "none" /\ DepsChanged02(name02, name02) THEN "scheduled" ELSE effect02

Init02 ==
  /\ name02 = NullName
  /\ state02 = InitialState02
  /\ effect02 = "none"
  /\ fetches02 = <<>>
  /\ keys02 = 0
  /\ fetched02 = 0
  /\ loadings02 = 0
  /\ nLoaded02 = 0
  /\ nError02 = 0

\* handleSubmit (02.js:86-89) and the render it causes (02.js:98, 21-27).
handleSubmit02(n) ==
  /\ effect02 = "none"
  /\ IF n = name02
       THEN \* setPokemonName with the same value: no render
            UNCHANGED vars02
     ELSE IF TruthyName(n) /\ ~TruthyName(name02)
       THEN \* PokemonInfo mounts
            /\ name02' = n
            /\ state02' = InitialState02
            /\ effect02' = "scheduled"
            /\ fetches02' = <<>>
            /\ keys02' = 1
            /\ fetched02' = 0
            /\ loadings02' = 0
            /\ nLoaded02' = 0
            /\ nError02' = 0
     ELSE IF TruthyName(n)
       THEN \* pokemonName changes
            /\ keys02 < MaxKeys02
            /\ name02' = n
            /\ effect02' = IF DepsChanged02(name02, n) THEN "scheduled" ELSE effect02
            /\ keys02' = keys02 + 1
            /\ UNCHANGED <<state02, fetches02, fetched02, loadings02, nLoaded02, nError02>>
     ELSE IF TruthyName(name02)
       THEN \* PokemonInfo unmounts: its state is gone and the callbacks of
            \* its pending fetches update nothing
            /\ name02' = n
            /\ state02' = InitialState02
            /\ effect02' = "none"
            /\ fetches02' = <<>>
            /\ keys02' = 0
            /\ fetched02' = 0
            /\ loadings02' = 0
            /\ nLoaded02' = 0
            /\ nError02' = 0
     ELSE \* null -> "": nothing is mounted
            /\ name02' = n
            /\ UNCHANGED <<state02, effect02, fetches02, keys02, fetched02, loadings02, nLoaded02, nError02>>

\* The effect, first statement: dispatch({type: 'LOADING'}) (02.js:30).
DispatchLoading02 ==
  /\ effect02 = "scheduled"
  /\ state02' = pokemonReducer(state02, [type |-> "LOADING"])
  /\ effect02' = "dispatched"
  /\ loadings02' = loadings02 + 1
  /\ UNCHANGED <<name02, fetches02, keys02, fetched02, nLoaded02, nError02>>

\* The effect, second statement: fetchPokemon(pokemonName).then(...) (02.js:31).
CallFetch02 ==
  /\ effect02 = "dispatched"
  /\ fetches02' = Append(fetches02, name02)
  /\ effect02' = "none"
  /\ fetched02' = fetched02 + 1
  /\ UNCHANGED <<name02, state02, keys02, loadings02, nLoaded02, nError02>>

\* fetchPokemon resolves: the success callback (02.js:32-34).
FetchSucceed02(i) ==
  /\ effect02 # "dispatched"
  /\ state02' = pokemonReducer(state02, [type |-> "LOADED", pokemon |-> fetchPokemon(fetches02[i])])
  /\ fetches02' = RemoveAt(fetches02, i)
  /\ effect02' = AfterDispatch02
  /\ nLoaded02' = nLoaded02 + 1
  /\ UNCHANGED <<name02, keys02, fetched02, loadings02, nError02>>

\* fetchPokemon rejects: the failure callback (02.js:35-37).
FetchFail02(i) ==
  /\ effect02 # "dispatched"
  /\ state02' = pokemonReducer(state02, [type |-> "ERROR", error |-> NetworkError])
  /\ fetches02' = RemoveAt(fetches02, i)
  /\ effect02' = AfterDispatch02
  /\ nError02' = nError02 + 1
  /\ UNCHANGED <<name02, keys02, fetched02, loadings02, nLoaded02>>

Next02 ==
  \/ \E n \in Inputs : handleSubmit02(n) /\ UNCHANGED <<vars04, vars05>>
  \/ DispatchLoading02 /\ UNCHANGED <<vars04, vars05>>
  \/ CallFetch02 /\ UNCHANGED <<vars04, vars05>>
  \/ \E i \in 1..Len(fetches02) : FetchSucceed02(i) /\ UNCHANGED <<vars04, vars05>>
  \/ \E i \in 1..Len(fetches02) : FetchFail02(i) /\ UNCHANGED <<vars04, vars05>>

\* ------------------------------------------------------------------ 05.js
\* The number of lines of allMessages (05.js:47-79).
AllMessagesCount == 31
\* allMessages.slice(0, 8) (05.js:28).
InitialMessagesCount == 8

\* allMessages (05.js:47-79), each message as its id.
allMessages == [i \in 1..AllMessagesCount |-> i - 1]

\* Array.prototype.slice(0, end): a negative end counts from the end of the
\* array, an end past the array is the array's length.
slice(s, end) ==
  LET e == IF end < 0
             THEN (IF Len(s) + end < 0 THEN 0 ELSE Len(s) + end)
             ELSE (IF end > Len(s) THEN Len(s) ELSE end)
  IN SubSeq(s, 1, e)

Init05 ==
  /\ messages = slice(allMessages, InitialMessagesCount)
  /\ click = [op |-> "init", prev |-> 0]
  /\ clicks = 0

\* addMessage with an off-by-one in the new length.
addMessage_PlusTwo ==
  /\ clicks < MaxClicks
  /\ messages' = slice(allMessages, Len(messages) + 2)
  /\ click' = [op |-> "add", prev |-> Len(messages)]
  /\ clicks' = clicks + 1

\* addMessage (05.js:29-31).
addMessage ==
  /\ clicks < MaxClicks
  /\ messages' = slice(allMessages, Len(messages) + 1)
  /\ click' = [op |-> "add", prev |-> Len(messages)]
  /\ clicks' = clicks + 1

\* removeMessage (05.js:32-34).
removeMessage ==
  /\ clicks < MaxClicks
  /\ messages' = slice(allMessages, Len(messages) - 1)
  /\ click' = [op |-> "remove", prev |-> Len(messages)]
  /\ clicks' = clicks + 1

Next05 ==
  \/ addMessage /\ UNCHANGED <<vars04, vars02>>
  \/ removeMessage /\ UNCHANGED <<vars04, vars02>>

\* --------------------------------------------------------- specifications
\* Every program starts in its initial state.
Init == Init04 /\ Init02 /\ Init05

Next ==
  \/ \E n \in Inputs : handleSubmit(n) /\ UNCHANGED <<vars02, vars05>>
  \/ RunEffect /\ UNCHANGED <<vars02, vars05>>
  \/ \E i \in 1..Len(promises) : FetchSucceed(i) /\ UNCHANGED <<vars02, vars05>>
  \/ DispatchLoaded /\ UNCHANGED <<vars02, vars05>>
  \/ \E i \in 1..Len(promises) : FetchFail(i) /\ UNCHANGED <<vars02, vars05>>

Spec == Init /\ [][Next]_vars

\* A scheduled effect runs and a queued then-callback runs; the network and
\* the user owe nothing.
FairSpec ==
  /\ Spec
  /\ WF_vars(RunEffect /\ UNCHANGED <<vars02, vars05>>)
  /\ WF_vars(DispatchLoaded /\ UNCHANGED <<vars02, vars05>>)

Spec02 == Init /\ [][Next02]_vars

Spec05 == Init /\ [][Next05]_vars

\* ------------------------------------------------------------------ claims
\* The PokemonInfo instance survives the step.
SameInstance == TruthyName(pokemonName) /\ TruthyName(pokemonName')
Fetching(k) == {i \in 1..Len(promises) : promises[i].stage = "fetching" /\ promises[i].key = k}

\* C1 (as claimed): when a chain issued for a name that is no longer the
\* active name settles, with LOADED or with ERROR, the request state is left
\* as it was.
C1_StaleSettleIgnored ==
  [][(last'.op \in {"LOADED", "ERROR"} /\ last'.key # pokemonName) => state' = state]_vars

\* C2 (as claimed): for every name, at most one fetchPokemon call is
\* unsettled at any time.
C2_OneFetchPerKey == \A k \in Names : Cardinality(Fetching(k)) <= 1

\* C3 (as claimed): the cache of a PokemonInfo starts empty, and an entry it
\* holds is held, unchanged, in every later state of that PokemonInfo.
C3_NeverEvicted ==
  [][/\ (~TruthyName(pokemonName) /\ TruthyName(pokemonName')) => cache' = EmptyCache
     /\ SameInstance => \A k \in Names : cache[k] # Undefined => cache'[k] = cache[k]]_vars

\* C4 (as claimed): when the effect runs for a name whose payload is in the
\* cache, fetchPokemon is not called, and the chain it starts carries the
\* cached payload to LOADED.
C4_CachedNoFetch ==
  [][(last'.op = "effect" /\ cache[pokemonName] # Undefined) =>
       /\ ~last'.fetched
       /\ promises'[Len(promises')].stage = "resolved"
       /\ promises'[Len(promises')].data = cache[pokemonName]]_vars

\* C5 (as claimed): while the name of a first request stays the active name,
\* fetchPokemon is called for it once: the request state is Loading after
\* the effect, and no second call follows.
C5_FirstRequestOneCall ==
  firstRequest =>
    /\ calls <= 1
    /\ (last.op = "effect" /\ calls = 1) => RequestState = "Loading"

\* C6 (as claimed): in a PokemonInfo that was given one name only, once the
\* request state is Loaded it does not change again.
C6_LoadedIsFinal ==
  [][(SameInstance /\ requested' = {pokemonName} /\ RequestState = "Loaded") =>
       state' = state]_vars

\* C7: when the fetch for the active name rejects with error e, the request
\* state becomes Errored{error: e} with loading false and data null, the
\* cache is what it was, and the reducer did not throw.
C7_RejectionBecomesErrored ==
  [][(last'.op = "ERROR" /\ last'.key = pokemonName) =>
       /\ state' = [loading |-> FALSE, data |-> Null, error |-> NetworkError]
       /\ RequestState' = "Errored"
       /\ cache' = cache]_vars

\* C7 witness: the fetch for the active name rejected while the cache held
\* an entry for another name.
C7_Witness ==
  /\ last.op = "ERROR"
  /\ last.key = pokemonName
  /\ RequestState = "Errored"
  /\ \E k \in Names : Truthy(cache[k])

\* C8 (as claimed): submitting again the name whose fetch was rejected runs
\* the resolver again, and a rejected name is fetched again only after such
\* a submit, never because some other update re-ran the effect.
C8_RetryOnlyOnRequest ==
  [][/\ (/\ last'.op = "submit"
         /\ last'.key = pokemonName
         /\ RequestState = "Errored"
         /\ shownFor = pokemonName) => effect' # "none"
     /\ (/\ last'.op = "effect"
         /\ last'.fetched
         /\ RequestState = "Errored"
         /\ shownFor = pokemonName) => effect # "cache"]_vars

\* C9 (as claimed): the cache of a PokemonInfo is written only by the
\* success callback of a chain issued for the name that is still active.
C9_CacheWrittenByCurrentOnly ==
  [][(SameInstance /\ cache' # cache) =>
       (last'.op = "resolve" /\ last'.key = pokemonName)]_vars

\* C10: the request state is one of Idle, Loading, Loaded, Errored: loading
\* implies data and error are null, data and error are never both set, and
\* the state after a LOADING dispatch holds neither data nor error.
C10_StateWellFormed ==
  /\ RequestState \in {"Idle", "Loading", "Loaded", "Errored"}
  /\ state.loading => (state.data = Null /\ state.error = Null)
  /\ ~(state.data # Null /\ state.error # Null)
  /\ last.op = "effect" => state = [loading |-> TRUE, data |-> Null, error |-> Null]

\* C10 witness: a LOADING dispatch on a state that held data.
C10_Witness == last.op = "effect" /\ last.prev = "Loaded" /\ state.loading

\* C11: every cache entry holds what fetchPokemon returned for its own key,
\* also when it was written after the active name had changed.
C11_EntryUnderOwnKey ==
  \A k \in Names : cache[k] # Undefined => cache[k] = fetchPokemon(k)

\* C11 witness: a chain wrote the pokemon of its own name into the cache
\* while another name was the active one.
C11_Witness ==
  /\ last.op = "resolve"
  /\ last.key # pokemonName
  /\ TruthyName(pokemonName)
  /\ cache[last.key] = Pokemon(last.key)

\* Action types the program does not define.
OtherActionTypes == {"RESET", "loaded", "CANCEL"}

\* C12: asyncReducer returns a state for LOADING, LOADED and ERROR, throws
\* for any other action type, as pokemonReducer does, and no reachable
\* request state is the result of a throw.
C12_OnlyThreeActionTypes ==
  /\ RequestState # "Thrown"
  /\ \A t \in OtherActionTypes : asyncReducer(state, [type |-> t]) = Unhandled
  /\ \A t \in {"LOADING", "LOADED", "ERROR"} :
       asyncReducer(state, [type |-> t, data |-> Null, error |-> NetworkError]) # Unhandled
  /\ \A t \in OtherActionTypes : pokemonReducer(state02, [type |-> t]) = Unhandled

\* C12 witness: all of LOADING, LOADED and ERROR were dispatched.
C12_Witness ==
  /\ last.op = "ERROR"
  /\ last.prev = "Loaded"
  /\ asyncReducer(state, [type |-> "RESET"]) = Unhandled

\* C13 (as claimed): while fetchPokemon for the active name stays unsettled
\* and the name is not changed, a request state of Loading stays Loading.
C13_HungStaysLoading ==
  [][(/\ pokemonName' = pokemonName
      /\ RequestState = "Loading"
      /\ shownFor = pokemonName
      /\ Fetching(pokemonName) # {}
      /\ Cardinality(Fetching(pokemonName)') = Cardinality(Fetching(pokemonName)))
     => RequestState' = "Loading"]_vars

\* A step that calls fetchPokemon, and a step that changes the active name.
FetchStep == last'.op = "effect" /\ last'.fetched
NameChange == pokemonName' # pokemonName

\* C14 (as claimed): unless the name keeps being changed, fetchPokemon is
\* called finitely often: from some point on no step calls it.
C14_Quiescence == ([]<><<NameChange>>_vars) \/ (<>[][~FetchStep]_vars)

\* C15: in 02.js the effect runs once on mount and once per change of
\* pokemonName: fetchPokemon has been called once per name given (the call
\* for the latest name may still be due), every call comes after its own
\* LOADING dispatch, and every settled fetch dispatched exactly one of
\* LOADED and ERROR.
C15_OneFetchPerKeyValue ==
  /\ fetched02 <= keys02
  /\ keys02 <= fetched02 + 1
  /\ effect02 = "none" => fetched02 = keys02
  /\ fetched02 <= loadings02
  /\ effect02 # "dispatched" => loadings02 = fetched02
  /\ nLoaded02 + nError02 + Len(fetches02) = fetched02

\* C15 witness: a PokemonInfo that was given three names, with one fetch
\* resolved, one rejected and one pending.
C15_Witness ==
  /\ keys02 = 3
  /\ effect02 = "none"
  /\ fetched02 = 3
  /\ nLoaded02 = 1
  /\ nError02 = 1
  /\ Len(fetches02) = 1

\* C16 (as claimed): removeMessage takes a list of length n > 0 to length
\* n - 1 and leaves an empty list empty.
C16_RemoveNeverGrows ==
  click.op = "remove" =>
    Len(messages) = (IF click.prev > 0 THEN click.prev - 1 ELSE 0)

\* C17: the displayed list is a prefix of allMessages of length 0 to 31; it
\* starts with 8 messages; addMessage adds exactly one message below 31 and
\* changes nothing at 31.
C17_PrefixOfAllMessages ==
  /\ Len(messages) \in 0..31
  /\ Len(allMessages) = 31
  /\ messages = SubSeq(allMessages, 1, Len(messages))
  /\ click.op = "init" => Len(messages) = 8
  /\ click.op = "add" =>
       Len(messages) = (IF click.prev < 31 THEN click.prev + 1 ELSE 31)

\* C17 witness: addMessage was clicked on the full list, reached by adding
\* one by one from the first eight.
C17_Witness ==
  /\ click.op = "add"
  /\ click.prev = 31
  /\ clicks = 24

=============================================================================
